---- MODULE Spec2Model ----
(***************************************************************************)
(* A model of generate_feed.py: the listing extractor, the post-page date  *)
(* cascade, and the main pipeline that resolves one date per post and      *)
(* writes the feed.                                                        *)
(*                                                                         *)
(* Text is modelled as sequences of tokens: a url is a sequence of path    *)
(* tokens ("/", "feed", "#", ...), a title a sequence of words, tags,      *)
(* entities and whitespace.  A datetime is a record                        *)
(* [ord, sec, us]: proleptic Gregorian ordinal of the UTC day, second of   *)
(* that day, sub-second part.  Python's None is the record None below      *)
(* (ordinal 0 is no date).                                                 *)
(***************************************************************************)
EXTENDS Integers, Sequences, FiniteSets, TLC

VARIABLES
    pc,            \* position of the run
    listing_html,  \* the listing document: the h2-anchor blocks in document order
    mi,            \* extract_posts_from_listing: index of the match the loop is at
    seen,          \* extract_posts_from_listing: seen
    all_posts,     \* extract_posts_from_listing: posts, and the value returned
    posts,         \* main: that value sliced, [:MAX_ITEMS]
    build_dt,      \* main: build_dt
    i,             \* main: index of the post the for loop is at
    pub_dt,        \* main: the loop's pub_dt
    rss_items,     \* main: rss_items
    feed,          \* the content of feed.xml (NoFile before it is written)
    clock,         \* the wall clock: seconds since the listing fetch ended
    fetched,       \* the calls of fetch so far: [at, url, ok, page]
    post_html,     \* input of try_extract_pub_dt_from_post
    extracted      \* result of try_extract_pub_dt_from_post

\* the locals of extract_posts_from_listing
extractor == <<mi, seen, all_posts>>

vars == <<pc, listing_html, mi, seen, all_posts, posts, build_dt, i, pub_dt,
          rss_items, feed, clock, fetched, post_html, extracted>>

(***************************************************************************)
(* Bounds of the model                                                     *)
(***************************************************************************)
MaxMatches == 3      \* h2-anchor blocks of a listing, extractor specification
MaxTail == 2         \* free blocks after the filler blocks, main specification
MaxDelay == 1        \* seconds the fetch of a post page may take
MaxFrac == 1         \* sub-second part of the clock reading
ManyPosts == 50      \* a listing with far more posts than the cap

(***************************************************************************)
(* Program constants                                                       *)
(***************************************************************************)
MAX_ITEMS == 30

Origin == "https://easconsultinggroup.com"
BLOG_URL == <<Origin, "/", "eas-blog", "/">>

None == [ord |-> 0, sec |-> 0, us |-> 0]

SecondsPerHour == 60 * 60
SecondsPerDay == 24 * SecondsPerHour

(***************************************************************************)
(* str helpers on token sequences                                          *)
(***************************************************************************)
Whitespace == {" ", "NL", "NBSP"}

startswith_at(s, pat, k) ==
    /\ k + Len(pat) - 1 <= Len(s)
    /\ SubSeq(s, k, k + Len(pat) - 1) = pat

endswith(s, suf) ==
    /\ Len(suf) <= Len(s)
    /\ SubSeq(s, Len(s) - Len(suf) + 1, Len(s)) = suf

contains(s, pat) == \E k \in 1..Len(s) : startswith_at(s, pat, k)

SetMin(S) == CHOOSE k \in S : \A j \in S : k <= j
SetMax(S) == CHOOSE k \in S : \A j \in S : k >= j

lstrip(s, chars) ==
    LET kept == {k \in 1..Len(s) : s[k] \notin chars}
    IN IF kept = {} THEN <<>> ELSE SubSeq(s, SetMin(kept), Len(s))

rstrip(s, chars) ==
    LET kept == {k \in 1..Len(s) : s[k] \notin chars}
    IN IF kept = {} THEN <<>> ELSE SubSeq(s, 1, SetMax(kept))

strip(s) == rstrip(lstrip(s, Whitespace), Whitespace)

\* s.split(sep)[0]
split_first(s, sep) ==
    LET hits == {k \in 1..Len(s) : s[k] = sep}
    IN IF hits = {} THEN s ELSE SubSeq(s, 1, SetMin(hits) - 1)

IndexOf(seq, x) ==
    IF \E k \in 1..Len(seq) : seq[k] = x
    THEN CHOOSE k \in 1..Len(seq) : seq[k] = x
    ELSE 0

(***************************************************************************)
(* datetime                                                                *)
(***************************************************************************)
MonthAbbr == <<"Jan", "Feb", "Mar", "Apr", "May", "Jun",
               "Jul", "Aug", "Sep", "Oct", "Nov", "Dec">>
MonthFull == <<"January", "February", "March", "April", "May", "June",
               "July", "August", "September", "October", "November", "December">>

IsLeap(y) == (y % 4 = 0) /\ ((y % 100 # 0) \/ (y % 400 = 0))

DaysInMonth(y, m) ==
    IF m = 2 THEN (IF IsLeap(y) THEN 29 ELSE 28)
    ELSE IF m \in {4, 6, 9, 11} THEN 30 ELSE 31

\* days of the year before the first of month m
DaysBeforeMonth(y, m) ==
    <<0, 31, 59, 90, 120, 151, 181, 212, 243, 273, 304, 334>>[m]
        + (IF m > 2 /\ IsLeap(y) THEN 1 ELSE 0)

DaysBeforeYear(y) ==
    (y - 1) * 365 + ((y - 1) \div 4) - ((y - 1) \div 100) + ((y - 1) \div 400)

ValidDate(y, m, d) ==
    /\ y >= 1 /\ y <= 9999
    /\ m >= 1 /\ m <= 12
    /\ d >= 1 /\ d <= DaysInMonth(y, m)

\* datetime(y, m, d, tzinfo=utc) at 00:00:00
Midnight(y, m, d) ==
    [ord |-> DaysBeforeYear(y) + DaysBeforeMonth(y, m) + d, sec |-> 0, us |-> 0]

\* datetime.strptime(text, "<month> %d, %Y") with the month names of
\* one format directive; None stands for ValueError
strptime_mdy(text, names) ==
    LET m == IndexOf(names, text.mon) IN
    IF m # 0 /\ ValidDate(text.year, m, text.day)
    THEN Midnight(text.year, m, text.day)
    ELSE None

parse_full_date_to_dt(date_text) ==
    LET b == strptime_mdy(date_text, MonthAbbr) IN
    IF b # None THEN b ELSE strptime_mdy(date_text, MonthFull)

\* datetime.strptime(text, "<month> %Y"), then .replace(day=1, ...)
strptime_my(text, names) ==
    LET m == IndexOf(names, text.mon) IN
    IF m # 0 /\ ValidDate(text.year, m, 1)
    THEN Midnight(text.year, m, 1)
    ELSE None

parse_month_year_to_dt(month_year_text) ==
    LET f == strptime_my(month_year_text, MonthFull) IN
    IF f # None THEN f ELSE strptime_my(month_year_text, MonthAbbr)

(***************************************************************************)
(* An ISO string is [y, m, d, time, tz, hours, tail]: the date digits, the *)
(* second of the day and sub-second part (time = <<>> for a date-only      *)
(* string), the zone designator ("" none, "Z", or "offset" with its        *)
(* hours), and whether text follows that fromisoformat rejects.            *)
(***************************************************************************)
fromisoformat_ok(s) ==
    /\ ValidDate(s.y, s.m, s.d)
    /\ s.tail = ""
    /\ (s.tz # "" => s.time # <<>>)

\* d.astimezone(timezone.utc), a zone-less value being taken as UTC
astimezone_utc(s) ==
    LET day == DaysBeforeYear(s.y) + DaysBeforeMonth(s.y, s.m) + s.d
        t == IF s.time = <<>> THEN [sec |-> 0, us |-> 0] ELSE s.time[1]
        off == IF s.tz = "offset" THEN s.hours * SecondsPerHour ELSE 0
        total == t.sec - off
    IN [ord |-> day + (total \div SecondsPerDay),
        sec |-> total % SecondsPerDay,
        us |-> t.us]

iso_to_dt(iso_str) ==
    IF fromisoformat_ok(iso_str) THEN astimezone_utc(iso_str)
    ELSE IF ValidDate(iso_str.y, iso_str.m, iso_str.d)
         THEN Midnight(iso_str.y, iso_str.m, iso_str.d)
         ELSE None

\* strftime("%a, %d %b %Y %H:%M:%S %z") of a UTC datetime: the weekday,
\* the day, the time to the second, the numeric offset
rfc2822(dt) ==
    [a |-> dt.ord % 7, day |-> dt.ord,
     H |-> dt.sec \div SecondsPerHour,
     M |-> (dt.sec % SecondsPerHour) \div 60,
     S |-> dt.sec % 60,
     z |-> "+0000"]

(***************************************************************************)
(* html.unescape / html.escape, token by token                             *)
(***************************************************************************)
Tags == {"<em>", "</em>", "<span>", "</span>"}

unescape_token(t) ==
    IF t = "&amp;" THEN "&"
    ELSE IF t = "&lt;" THEN "<"
    ELSE IF t = "&gt;" THEN ">"
    ELSE IF t = "&nbsp;" THEN "NBSP"
    ELSE t

escape_token(t) ==
    IF t = "&" THEN "&amp;"
    ELSE IF t = "<" THEN "&lt;"
    ELSE IF t = ">" THEN "&gt;"
    ELSE t

html_unescape(s) == [k \in 1..Len(s) |-> unescape_token(s[k])]
html_escape(s) == [k \in 1..Len(s) |-> escape_token(s[k])]

\* re.sub(r"<[^>]+>", "", raw_title)
strip_tags(s) == SelectSeq(s, LAMBDA t : t \notin Tags)

\* re.sub(r"\s+", " ", title): the first token of a run of whitespace
\* becomes a space, the rest of the run goes
collapse_ws(s) ==
    LET run == [k \in 1..Len(s) |->
                   IF s[k] \notin Whitespace THEN s[k]
                   ELSE IF k > 1 /\ s[k - 1] \in Whitespace THEN "" ELSE " "]
    IN SelectSeq(run, LAMBDA t : t # "")

(***************************************************************************)
(* extract_posts_from_listing.  A block of the listing is one match of     *)
(* h2_link: [href, inner, after], the href of the anchor, the anchor's     *)
(* inner markup, and the texts matching full_date_pat in the 1000          *)
(* characters after the match, in order.                                   *)
(***************************************************************************)
\* m.group(1).split("#")[0].strip()
\* (each intermediate string is a value of its own, as in the code: the
\* singleton sets bind it)
match_url(href) ==
    CHOOSE url \in {strip(x) : x \in {split_first(href, "#")}} : TRUE

\* re.sub(tags), re.sub(whitespace), html.unescape, strip, in that order
match_title(raw_title) ==
    CHOOSE title \in
        {strip(z) : z \in
            {html_unescape(y) : y \in
                {collapse_ws(x) : x \in {strip_tags(raw_title)}}}} : TRUE

skip_endpoint(url) ==
    \/ endswith(url, <<"/", "feed", "/">>)
    \/ endswith(url, <<"/", "comments", "/", "feed", "/">>)
    \/ contains(url, <<"/", "wp-json", "/">>)

\* a variant that compares without ignoring trailing slashes
is_listing_url_exact(url) == url = BLOG_URL

is_listing_url(url) == rstrip(url, {"/"}) = rstrip(BLOG_URL, {"/"})

\* full_date_pat.search(window), then parse_full_date_to_dt on the match
window_date(after) ==
    IF after = <<>> THEN None ELSE parse_full_date_to_dt(Head(after))

\* a variant that forgets the seen set
is_new_unseen(title, key, keys) == title # <<>>

is_new(title, key, keys) == title # <<>> /\ key \notin keys

\* one iteration of: for m in h2_link.finditer(listing_html)
\* (url and title are bound once, as the loop's locals are)
ExtractMatch ==
    /\ pc = "finditer"
    /\ mi <= Len(listing_html)
    /\ \E url \in {match_url(listing_html[mi].href)} :
       \E title \in {match_title(listing_html[mi].inner)} :
          IF skip_endpoint(url) \/ is_listing_url(url)
          THEN UNCHANGED <<all_posts, seen>>
          ELSE IF is_new(title, <<title, url>>, seen)
               THEN /\ seen' = seen \cup {<<title, url>>}
                    /\ all_posts' = Append(all_posts,
                                           [title |-> title, url |-> url,
                                            pub_dt |-> window_date(listing_html[mi].after)])
               ELSE UNCHANGED <<all_posts, seen>>
    /\ mi' = mi + 1
    /\ UNCHANGED <<pc, listing_html, posts, build_dt, i, pub_dt, rss_items, feed,
                   clock, fetched, post_html, extracted>>

(***************************************************************************)
(* Listings of the extractor specification                                 *)
(***************************************************************************)
Block(h, t, a) == [href |-> h, inner |-> t, after |-> a]

Mar9 == [mon |-> "Mar", day |-> 9, year |-> 2023]
Sep18 == [mon |-> "September", day |-> 18, year |-> 2025]
Feb31 == [mon |-> "Feb", day |-> 31, year |-> 2023]

PostA == <<Origin, "/", "post-a", "/">>
PostB == <<Origin, "/", "post-b", "/">>

EndpointHrefs ==
    { <<Origin, "/", "feed", "/">>,
      <<Origin, "/", "post-a", "/", "feed", "/", "#", "top">>,
      <<Origin, "/", "comments", "/", "feed", "/">>,
      <<Origin, "/", "post-a", "/", "comments", "/", "feed", "/", "?", "paged=2">>,
      <<Origin, "/", "wp-json", "/", "wp", "/", "v2", "/", "posts">>,
      BLOG_URL,
      <<Origin, "/", "eas-blog">> }

ExtractBlocks ==
    { Block(h, <<"A">>, <<>>) : h \in EndpointHrefs } \cup
    { Block(PostA, <<"A">>, <<>>),
      Block(PostA \o <<"#", "more">>, <<"A">>, <<Sep18>>),
      Block(PostA, <<"<em>", "A", "</em>", "NL">>, <<Mar9>>),
      Block(PostA, <<"A", " ", "NL", "&amp;", "B">>, <<>>),
      Block(PostB, <<"A">>, <<Feb31, Mar9>>),
      Block(PostA, <<>>, <<Mar9>>),
      Block(PostB, <<"<span>", "&nbsp;", "</span>">>, <<>>) }

RECURSIVE SeqsUpTo(_, _)
SeqsUpTo(S, n) ==
    IF n = 0 THEN {<<>>}
    ELSE LET shorter == SeqsUpTo(S, n - 1)
         IN shorter \cup {Append(q, x) : q \in {r \in shorter : Len(r) = n - 1}, x \in S}

NoFile == [written |-> FALSE, lastBuildDate |-> rfc2822(None), items |-> <<>>]
NoPage == [og_property |-> <<>>, og_name |-> <<>>, ld_json |-> <<>>,
           time_datetime |-> <<>>, date_label |-> <<>>]

InitExtract ==
    \E doc \in SeqsUpTo(ExtractBlocks, MaxMatches) :
        /\ pc = "finditer"
        /\ listing_html = doc
        /\ mi = 1
        /\ seen = {}
        /\ all_posts = <<>>
        /\ posts = <<>>
        /\ build_dt = None /\ i = 0 /\ pub_dt = None /\ rss_items = <<>>
        /\ feed = NoFile /\ clock = 0 /\ fetched = <<>>
        /\ post_html = NoPage /\ extracted = None

\* return posts
ExtractReturn ==
    /\ pc = "finditer"
    /\ mi > Len(listing_html)
    /\ posts' = all_posts
    /\ pc' = "extracted"
    /\ UNCHANGED <<listing_html, extractor, build_dt, i, pub_dt, rss_items,
                   feed, clock, fetched, post_html, extracted>>

NextExtract == ExtractMatch \/ ExtractReturn

SpecExtract == InitExtract /\ [][NextExtract]_vars

(***************************************************************************)
(* Properties of extract_posts_from_listing                                *)
(***************************************************************************)
MatchKey(b) == <<match_title(b.inner), match_url(b.href)>>

Candidate(b) ==
    /\ match_title(b.inner) # <<>>
    /\ ~skip_endpoint(match_url(b.href))
    /\ ~is_listing_url(match_url(b.href))

\* the blocks that are the first of their (title, url) in the document
FirstOccurrences ==
    {k \in 1..Len(listing_html) :
        /\ Candidate(listing_html[k])
        /\ \A j \in 1..(k - 1) : MatchKey(listing_html[j]) # MatchKey(listing_html[k])}

\* C1: the extracted posts never hold the same (title, url) twice; they are
\* exactly the first occurrences of each (title, url) among the candidate
\* blocks, each with the date found after that first occurrence, in
\* document order.
C1_DedupFirstInOrder ==
    pc = "extracted" =>
        /\ \A a, b \in 1..Len(posts) :
              a # b => <<posts[a].title, posts[a].url>> # <<posts[b].title, posts[b].url>>
        /\ Len(posts) = Cardinality(FirstOccurrences)
        /\ \A k \in FirstOccurrences :
              LET n == Cardinality({j \in FirstOccurrences : j <= k})
              IN posts[n] = [title |-> match_title(listing_html[k].inner),
                             url |-> match_url(listing_html[k].href),
                             pub_dt |-> window_date(listing_html[k].after)]

\* a listing where a (title, url) comes twice with different dates, written
\* differently, with another post kept as well
C1_Witness ==
    /\ pc = "extracted"
    /\ Len(posts) >= 2
    /\ \E j, k \in 1..Len(listing_html) :
          /\ j < k
          /\ Candidate(listing_html[j])
          /\ MatchKey(listing_html[j]) = MatchKey(listing_html[k])
          /\ listing_html[j].href # listing_html[k].href
          /\ window_date(listing_html[j].after) # window_date(listing_html[k].after)

FeedPath == <<"/", "feed", "/">>
CommentsFeedPath == <<"/", "comments", "/", "feed", "/">>
ApiPath == <<"/", "wp-json", "/">>

\* C2: no extracted url ends with /feed/ or /comments/feed/, none equals
\* BLOG_URL up to trailing slashes, and the urls carry no #fragment: a block
\* whose href is such a url followed by a fragment is excluded too.
C2_NoFeedNoListingUrl ==
    pc = "extracted" =>
        /\ \A n \in 1..Len(posts) :
              /\ ~endswith(posts[n].url, FeedPath)
              /\ ~endswith(posts[n].url, CommentsFeedPath)
              /\ rstrip(posts[n].url, {"/"}) # rstrip(BLOG_URL, {"/"})
              /\ ~contains(posts[n].url, <<"#">>)
        /\ \A k \in 1..Len(listing_html) :
              LET u == split_first(listing_html[k].href, "#")
              IN (endswith(u, FeedPath) \/ rstrip(u, {"/"}) = rstrip(BLOG_URL, {"/"}))
                    => \A n \in 1..Len(posts) : posts[n].url # u

\* a listing with a feed url behind a fragment, the listing url without its
\* slash, and a post that is kept
C2_Witness ==
    /\ pc = "extracted"
    /\ posts # <<>>
    /\ \E k \in 1..Len(listing_html) :
          /\ contains(listing_html[k].href, <<"#">>)
          /\ endswith(split_first(listing_html[k].href, "#"), FeedPath)
    /\ \E k \in 1..Len(listing_html) :
          /\ listing_html[k].href # BLOG_URL
          /\ rstrip(listing_html[k].href, {"/"}) = rstrip(BLOG_URL, {"/"})

\* C10: no extracted url contains /comments/feed/ anywhere, and none
\* contains /wp-json/.
C10_NoCommentsFeedAnywhere ==
    pc = "extracted" =>
        \A n \in 1..Len(posts) :
            /\ ~contains(posts[n].url, CommentsFeedPath)
            /\ ~contains(posts[n].url, ApiPath)

(***************************************************************************)
(* try_extract_pub_dt_from_post.  A post page is what the function's       *)
(* regular expressions find in it, in document order: the content values   *)
(* of the meta tags keyed by property= and by name=, the ld+json script    *)
(* blocks, the datetime values of time elements, the "Date: Month Year"    *)
(* labels.  An ld+json block is [valid, objs]: whether json.loads accepts  *)
(* it, and its objects (the list itself, or the single value);  an object  *)
(* is [dict, datePublished], the latter <<>> when the key is absent.       *)
(***************************************************************************)
\* m = re.search(...); if m: dt = iso_to_dt(m.group(1))
search_iso(found) == IF found = <<>> THEN None ELSE iso_to_dt(Head(found))

RECURSIVE objs_date(_)
objs_date(objs) ==
    IF objs = <<>> THEN None
    ELSE LET obj == Head(objs)
             dt == IF obj.dict /\ obj.datePublished # <<>>
                   THEN iso_to_dt(obj.datePublished[1])
                   ELSE None
         IN IF dt # None THEN dt ELSE objs_date(Tail(objs))

RECURSIVE ld_json_date(_)
ld_json_date(blocks) ==
    IF blocks = <<>> THEN None
    ELSE LET dt == IF Head(blocks).valid THEN objs_date(Head(blocks).objs) ELSE None
         IN IF dt # None THEN dt ELSE ld_json_date(Tail(blocks))

search_label(found) ==
    IF found = <<>> THEN None ELSE parse_month_year_to_dt(Head(found))

\* a variant in which a tag that is present but unparsable ends the cascade
try_extract_first_present(page) ==
    IF page.og_property # <<>> THEN search_iso(page.og_property)
    ELSE IF page.og_name # <<>> THEN search_iso(page.og_name)
    ELSE IF page.ld_json # <<>> THEN ld_json_date(page.ld_json)
    ELSE IF page.time_datetime # <<>> THEN search_iso(page.time_datetime)
    ELSE search_label(page.date_label)

try_extract_pub_dt_from_post(page) ==
    LET og == search_iso(page.og_property)
        ogn == search_iso(page.og_name)
        ld == ld_json_date(page.ld_json)
        tm == search_iso(page.time_datetime)
        lb == search_label(page.date_label)
    IN IF og # None THEN og
       ELSE IF ogn # None THEN ogn
       ELSE IF ld # None THEN ld
       ELSE IF tm # None THEN tm
       ELSE lb

(***************************************************************************)
(* Post pages of the cascade specification                                 *)
(***************************************************************************)
Iso(y, m, d, time, tz, hours, tail) ==
    [y |-> y, m |-> m, d |-> d, time |-> time, tz |-> tz, hours |-> hours, tail |-> tail]

\* 2025-09-18T10:22:00Z
IsoZ == Iso(2025, 9, 18, <<[sec |-> 10 * SecondsPerHour + 22 * 60, us |-> 0]>>, "Z", 0, "")
\* 2025-12-31T23:30:00.5-08:00
IsoOffset ==
    Iso(2025, 12, 31, <<[sec |-> 23 * SecondsPerHour + 30 * 60, us |-> 1]>>, "offset", -8, "")
\* 2024-02-29
IsoDate == Iso(2024, 2, 29, <<>>, "", 0, "")
\* 2023-03-09 10am
IsoTail == Iso(2023, 3, 9, <<>>, "", 0, " 10am")
\* 2025-13-01
IsoBad == Iso(2025, 13, 1, <<>>, "", 0, "")

Jan2026 == [mon |-> "January", year |-> 2026]
Sep2025 == [mon |-> "Sep", year |-> 2025]
Sept2025 == [mon |-> "Sept", year |-> 2025]

Obj(dict, value) == [dict |-> dict, datePublished |-> value]
LdBlock(valid, objs) == [valid |-> valid, objs |-> objs]

CascadePages ==
    [og_property : {<<>>, <<IsoBad>>, <<IsoZ>>, <<IsoBad, IsoZ>>},
     og_name : {<<>>, <<IsoBad>>, <<IsoOffset>>},
     ld_json : {<<>>,
                <<LdBlock(FALSE, <<>>)>>,
                <<LdBlock(TRUE, <<Obj(TRUE, <<>>), Obj(TRUE, <<IsoDate>>)>>)>>,
                <<LdBlock(FALSE, <<>>), LdBlock(TRUE, <<Obj(TRUE, <<IsoBad>>)>>),
                  LdBlock(TRUE, <<Obj(FALSE, <<>>), Obj(TRUE, <<IsoTail>>)>>)>>,
                <<LdBlock(TRUE, <<Obj(TRUE, <<IsoBad>>)>>)>>},
     time_datetime : {<<>>, <<IsoBad>>, <<IsoTail>>, <<IsoOffset>>},
     date_label : {<<>>, <<Sept2025>>, <<Jan2026>>, <<Sep2025>>}]

InitCascade ==
    \E page \in CascadePages :
        /\ pc = "page"
        /\ post_html = page
        /\ extracted = None
        /\ listing_html = <<>> /\ mi = 0 /\ seen = {}
        /\ all_posts = <<>> /\ posts = <<>>
        /\ build_dt = None /\ i = 0 /\ pub_dt = None /\ rss_items = <<>>
        /\ feed = NoFile /\ clock = 0 /\ fetched = <<>>

\* extracted = try_extract_pub_dt_from_post(post_html)
Cascade ==
    /\ pc = "page"
    /\ extracted' = try_extract_pub_dt_from_post(post_html)
    /\ pc' = "resolved"
    /\ UNCHANGED <<listing_html, extractor, posts, build_dt, i, pub_dt, rss_items, feed,
                   clock, fetched, post_html>>

NextCascade == Cascade

SpecCascade == InitCascade /\ [][NextCascade]_vars

(***************************************************************************)
(* Properties of try_extract_pub_dt_from_post                              *)
(***************************************************************************)
FirstFound(found) == IF found = <<>> THEN None ELSE iso_to_dt(found[1])

\* the datePublished values of the page's linked data, in document order
RECURSIVE LinkedDates(_)
LinkedDates(blocks) ==
    IF blocks = <<>> THEN <<>>
    ELSE (IF Head(blocks).valid
          THEN SelectSeq([k \in 1..Len(Head(blocks).objs) |->
                             IF Head(blocks).objs[k].dict
                             THEN Head(blocks).objs[k].datePublished ELSE <<>>],
                         LAMBDA v : v # <<>>)
          ELSE <<>>) \o LinkedDates(Tail(blocks))

FirstParsable(values) ==
    LET ok == SelectSeq(values, LAMBDA v : iso_to_dt(v[1]) # None)
    IN IF ok = <<>> THEN None ELSE iso_to_dt(ok[1][1])

\* what each tier yields for the page, in priority order
Tiers(page) ==
    << FirstFound(page.og_property),
       FirstFound(page.og_name),
       FirstParsable(LinkedDates(page.ld_json)),
       FirstFound(page.time_datetime),
       IF page.date_label = <<>> THEN None
       ELSE parse_month_year_to_dt(page.date_label[1]) >>

\* C3: the result is the value of the first tier, in the order meta property,
\* meta name, JSON-LD, time element, Date label, that yields a timestamp, and
\* None only when no tier yields one; a page with a parsable meta tag and a
\* different Date label resolves to the meta value.
C3_CascadePriority ==
    pc = "resolved" =>
        LET t == Tiers(post_html) IN
        /\ \A k \in 1..Len(t) :
              (t[k] # None /\ \A j \in 1..(k - 1) : t[j] = None) => extracted = t[k]
        /\ (extracted = None) <=> (\A k \in 1..Len(t) : t[k] = None)
        /\ (t[1] # None /\ t[5] # None /\ t[1] # t[5]) => extracted = t[1]

\* a page whose property meta tag is unparsable, whose name meta tag parses,
\* and whose Date label says something else
C3_Witness ==
    /\ pc = "resolved"
    /\ post_html.og_property # <<>>
    /\ Tiers(post_html)[1] = None
    /\ Tiers(post_html)[2] # None
    /\ Tiers(post_html)[5] # None
    /\ Tiers(post_html)[5] # Tiers(post_html)[2]
    /\ extracted = Tiers(post_html)[2]

(***************************************************************************)
(* main.  fetch is the environment: it returns a document or raises.       *)
(* clock counts the seconds since fetch(BLOG_URL) ended; the fetch of a    *)
(* post page takes up to MaxDelay seconds.  fetched logs every call of     *)
(* fetch (at = 0 for the listing, at = i for the page of posts[i]).        *)
(***************************************************************************)
Min(a, b) == IF a <= b THEN a ELSE b

\* a variant that keeps every post
truncate_nothing(seq, n) == seq

\* seq[:n]
truncate(seq, n) == SubSeq(seq, 1, Min(Len(seq), n))

BuildDay == Midnight(2026, 3, 1).ord

\* datetime.now(timezone.utc), us the sub-second part read
now_utc(us) ==
    [ord |-> BuildDay + (clock \div SecondsPerDay), sec |-> clock % SecondsPerDay, us |-> us]

\* the <item> element appended to rss_items
rss_item(title, link, dt) ==
    [title |-> html_escape(title), link |-> html_escape(link),
     guid |-> html_escape(link), pubDate |-> rfc2822(dt)]

FetchLog(at, url, ok, page) == [at |-> at, url |-> url, ok |-> ok, page |-> page]

\* the listings fetch(BLOG_URL) may return: n dated posts, then free blocks
FillerBlock(k) ==
    Block(<<Origin, "/", "post-" \o ToString(k), "/">>, <<"Post", " ", ToString(k)>>,
          <<[mon |-> "Mar", day |-> 1 + (k % 28), year |-> 2023]>>)

Filler(n) == [k \in 1..n |-> FillerBlock(k)]

MainBlocks ==
    { Block(PostA, <<"A">>, <<>>),
      Block(PostB, <<"A", "&amp;", "B">>, <<Sep18>>),
      Block(PostB, <<"B">>, <<Feb31>>),
      Block(<<Origin, "/", "feed", "/">>, <<"A">>, <<>>) }

MainListings ==
    { Filler(n) \o t : n \in {0, 1, MAX_ITEMS - 1}, t \in SeqsUpTo(MainBlocks, MaxTail) }
    \cup { Filler(ManyPosts) }

DatedPage == [NoPage EXCEPT !.og_property = <<IsoZ>>, !.date_label = <<Jan2026>>]
LabelPage == [NoPage EXCEPT !.time_datetime = <<IsoBad>>, !.date_label = <<Jan2026>>]
MainPages == {NoPage, DatedPage, LabelPage}

Init ==
    /\ pc = "start"
    /\ listing_html = <<>>
    /\ mi = 0
    /\ seen = {}
    /\ all_posts = <<>>
    /\ posts = <<>>
    /\ build_dt = None
    /\ i = 0
    /\ pub_dt = None
    /\ rss_items = <<>>
    /\ feed = NoFile
    /\ clock = 0
    /\ fetched = <<>>
    /\ post_html = NoPage
    /\ extracted = None

\* listing_html = fetch(BLOG_URL)
FetchListingOk ==
    /\ pc = "start"
    /\ \E doc \in MainListings : listing_html' = doc
    /\ fetched' = Append(fetched, FetchLog(0, BLOG_URL, TRUE, NoPage))
    /\ mi' = 1
    /\ seen' = {}
    /\ all_posts' = <<>>
    /\ pc' = "finditer"
    /\ UNCHANGED <<posts, build_dt, i, pub_dt, rss_items, feed, clock, post_html,
                   extracted>>

\* fetch(BLOG_URL) raises: the exception leaves main
FetchListingFail ==
    /\ pc = "start"
    /\ fetched' = Append(fetched, FetchLog(0, BLOG_URL, FALSE, NoPage))
    /\ pc' = "raised"
    /\ UNCHANGED <<listing_html, extractor, posts, build_dt, i, pub_dt, rss_items, feed,
                   clock, post_html, extracted>>

\* posts = extract_posts_from_listing(listing_html)[:MAX_ITEMS]
SlicePosts ==
    /\ pc = "finditer"
    /\ mi > Len(listing_html)
    /\ posts' = truncate(all_posts, MAX_ITEMS)
    /\ pc' = "build_time"
    /\ UNCHANGED <<listing_html, extractor, build_dt, i, pub_dt, rss_items,
                   feed, clock, fetched, post_html, extracted>>

\* build_dt = now_utc(); rss_items = []
BuildTime ==
    /\ pc = "build_time"
    /\ \E us \in 0..MaxFrac : build_dt' = now_utc(us)
    /\ rss_items' = <<>>
    /\ i' = 1
    /\ pc' = "for"
    /\ UNCHANGED <<listing_html, extractor, posts, pub_dt, feed, clock, fetched,
                   post_html, extracted>>

\* for title, link, pub_dt in posts
ForNext ==
    /\ pc = "for"
    /\ i <= Len(posts)
    /\ pub_dt' = posts[i].pub_dt
    /\ pc' = "if_missing"
    /\ UNCHANGED <<listing_html, extractor, posts, build_dt, i, rss_items, feed, clock,
                   fetched, post_html, extracted>>

\* a variant that treats an empty listing as an error
ForEnd_empty_raises ==
    /\ pc = "for"
    /\ i > Len(posts)
    /\ pc' = IF posts = <<>> THEN "raised" ELSE "write"
    /\ UNCHANGED <<listing_html, extractor, posts, build_dt, i, pub_dt, rss_items, feed, clock,
                   fetched, post_html, extracted>>

ForEnd ==
    /\ pc = "for"
    /\ i > Len(posts)
    /\ pc' = "write"
    /\ UNCHANGED <<listing_html, extractor, posts, build_dt, i, pub_dt, rss_items, feed, clock,
                   fetched, post_html, extracted>>

\* if pub_dt is None: false
HasListingDate ==
    /\ pc = "if_missing"
    /\ pub_dt # None
    /\ pc' = "fallback"
    /\ UNCHANGED <<listing_html, extractor, posts, build_dt, i, pub_dt, rss_items, feed, clock,
                   fetched, post_html, extracted>>

\* a variant that fetches the post page whether or not the listing gave a date
FetchPostOk_always ==
    /\ pc = "if_missing"
    /\ \E page \in MainPages, d \in 0..MaxDelay :
        /\ post_html' = page
        /\ extracted' = try_extract_pub_dt_from_post(page)
        /\ pub_dt' = IF extracted' # None THEN extracted' ELSE pub_dt
        /\ fetched' = Append(fetched, FetchLog(i, posts[i].url, TRUE, page))
        /\ clock' = clock + d
    /\ pc' = "fallback"
    /\ UNCHANGED <<listing_html, extractor, posts, build_dt, i, rss_items, feed>>

\* post_html = fetch(link); extracted = try_extract_pub_dt_from_post(post_html);
\* if extracted is not None: pub_dt = extracted
FetchPostOk ==
    /\ pc = "if_missing"
    /\ pub_dt = None
    /\ \E page \in MainPages, d \in 0..MaxDelay :
        /\ post_html' = page
        /\ extracted' = try_extract_pub_dt_from_post(page)
        /\ pub_dt' = IF extracted' # None THEN extracted' ELSE pub_dt
        /\ fetched' = Append(fetched, FetchLog(i, posts[i].url, TRUE, page))
        /\ clock' = clock + d
    /\ pc' = "fallback"
    /\ UNCHANGED <<listing_html, extractor, posts, build_dt, i, rss_items, feed>>

\* a variant that tries the fetch again after a failure
FetchPostFail_retry ==
    /\ pc = "if_missing"
    /\ pub_dt = None
    /\ \E d \in 0..MaxDelay : clock' = clock + d
    /\ fetched' = Append(fetched, FetchLog(i, posts[i].url, FALSE, NoPage))
    /\ pc' = "if_missing"
    /\ UNCHANGED <<listing_html, extractor, posts, build_dt, i, pub_dt, rss_items, feed,
                   post_html, extracted>>

\* a variant without the except clause: the exception leaves main
FetchPostFail_uncaught ==
    /\ pc = "if_missing"
    /\ pub_dt = None
    /\ \E d \in 0..MaxDelay : clock' = clock + d
    /\ fetched' = Append(fetched, FetchLog(i, posts[i].url, FALSE, NoPage))
    /\ pc' = "raised"
    /\ UNCHANGED <<listing_html, extractor, posts, build_dt, i, pub_dt, rss_items, feed,
                   post_html, extracted>>

\* fetch(link) raises: except Exception: pass
FetchPostFail ==
    /\ pc = "if_missing"
    /\ pub_dt = None
    /\ \E d \in 0..MaxDelay : clock' = clock + d
    /\ fetched' = Append(fetched, FetchLog(i, posts[i].url, FALSE, NoPage))
    /\ pc' = "fallback"
    /\ UNCHANGED <<listing_html, extractor, posts, build_dt, i, pub_dt, rss_items, feed,
                   post_html, extracted>>

\* a variant that reads the clock again instead of using build_dt
Fallback_now ==
    /\ pc = "fallback"
    /\ pub_dt' = IF pub_dt = None THEN now_utc(build_dt.us) ELSE pub_dt
    /\ pc' = "append"
    /\ UNCHANGED <<listing_html, extractor, posts, build_dt, i, rss_items, feed, clock,
                   fetched, post_html, extracted>>

\* if pub_dt is None: pub_dt = build_dt
Fallback ==
    /\ pc = "fallback"
    /\ pub_dt' = IF pub_dt = None THEN build_dt ELSE pub_dt
    /\ pc' = "append"
    /\ UNCHANGED <<listing_html, extractor, posts, build_dt, i, rss_items, feed, clock,
                   fetched, post_html, extracted>>

\* rss_items.append(...)
AppendItem ==
    /\ pc = "append"
    /\ rss_items' = Append(rss_items, rss_item(posts[i].title, posts[i].url, pub_dt))
    /\ i' = i + 1
    /\ pc' = "for"
    /\ UNCHANGED <<listing_html, extractor, posts, build_dt, pub_dt, feed, clock, fetched,
                   post_html, extracted>>

\* rss = ...; open("feed.xml", "w").write(rss); return 0
WriteFeed ==
    /\ pc = "write"
    /\ feed' = [written |-> TRUE, lastBuildDate |-> rfc2822(build_dt), items |-> rss_items]
    /\ pc' = "done"
    /\ UNCHANGED <<listing_html, extractor, posts, build_dt, i, pub_dt, rss_items, clock,
                   fetched, post_html, extracted>>

Next ==
    \/ FetchListingOk
    \/ FetchListingFail
    \/ ExtractMatch
    \/ SlicePosts
    \/ BuildTime
    \/ ForNext
    \/ ForEnd
    \/ HasListingDate
    \/ FetchPostOk
    \/ FetchPostFail
    \/ Fallback
    \/ AppendItem
    \/ WriteFeed

Spec == Init /\ [][Next]_vars

\* main runs without interruption: a step that can be taken is taken
FairSpec == Spec /\ WF_vars(Next)

(***************************************************************************)
(* Properties of main                                                      *)
(***************************************************************************)
PostFetches == SelectSeq(fetched, LAMBDA f : f.at > 0)

FailedAt(k) == \E n \in 1..Len(fetched) : fetched[n].at = k /\ ~fetched[n].ok

\* the dates the cascade found on the pages fetched for posts[k]
CascadeDates(k) ==
    {try_extract_pub_dt_from_post(fetched[n].page) :
        n \in {m \in 1..Len(fetched) : fetched[m].at = k /\ fetched[m].ok}} \ {None}

\* posts[k] has no listing date and its page gave none
FellBack(k) == posts[k].pub_dt = None /\ CascadeDates(k) = {}

\* the date of posts[k] by the first successful tier
ResolvedDate(k) ==
    IF posts[k].pub_dt # None THEN posts[k].pub_dt
    ELSE IF CascadeDates(k) # {} THEN CHOOSE dt \in CascadeDates(k) : TRUE
    ELSE build_dt

\* C4: a failed post-page fetch never ends the run; the post it was for is
\* emitted with the build time as pubDate; every item is what its own post
\* and its own fetch outcome determine, whatever happened to earlier posts;
\* a finished run has one item per capped post.
C4_PostFetchFailureIsLocal ==
    /\ (\E k \in 1..Len(posts) : FailedAt(k)) => pc # "raised"
    /\ \A k \in 1..Len(rss_items) :
          /\ FailedAt(k) => rss_items[k].pubDate = rfc2822(build_dt)
          /\ rss_items[k] = rss_item(posts[k].title, posts[k].url, ResolvedDate(k))
    /\ pc \in {"write", "done"} => Len(rss_items) = Len(posts)
    /\ pc = "done" => feed.items = rss_items

\* a finished run in which the page of the first post could not be fetched
\* and the page of a later post was fetched and gave a date
C4_Witness ==
    /\ pc = "done"
    /\ Len(feed.items) = Len(posts)
    /\ \E j, k \in 1..Len(posts) :
          /\ j < k
          /\ FailedAt(j)
          /\ CascadeDates(k) # {}
          /\ feed.items[k].pubDate # feed.lastBuildDate

\* C5: the posts main works on, and the items it emits, are the first
\* min(N, MAX_ITEMS) extracted posts in document order; the cap is in place
\* before any post page is fetched; the written feed has exactly that many
\* items, in that order.
C5_CapInDocumentOrder ==
    LET n == Min(Len(all_posts), MAX_ITEMS) IN
    /\ pc \notin {"start", "finditer", "raised"} =>
          /\ Len(posts) = n
          /\ \A k \in 1..n : posts[k] = all_posts[k]
    /\ Len(rss_items) <= n
    /\ \A k \in 1..Len(rss_items) :
          /\ rss_items[k].title = html_escape(all_posts[k].title)
          /\ rss_items[k].link = html_escape(all_posts[k].url)
    /\ \A m \in 1..Len(fetched) : fetched[m].at <= n
    /\ feed.written => (Len(feed.items) = n /\ feed.items = rss_items)

\* a feed written from a listing of ManyPosts posts: MAX_ITEMS items, whose
\* dates go down and up along the feed
C5_Witness ==
    /\ pc = "done"
    /\ Len(all_posts) = ManyPosts
    /\ Len(feed.items) = MAX_ITEMS
    /\ \E a \in 1..(MAX_ITEMS - 1) : feed.items[a].pubDate.day > feed.items[a + 1].pubDate.day
    /\ \E a \in 1..(MAX_ITEMS - 1) : feed.items[a].pubDate.day < feed.items[a + 1].pubDate.day

\* C6: the listing is fetched once, first; post pages are fetched in
\* document order, each at most once, only for posts among the first
\* MAX_ITEMS that have no listing date, and for every such post the loop has
\* passed; at most MAX_ITEMS post pages are fetched.
C6_FetchesOnlyUndatedCapped ==
    LET pf == PostFetches IN
    /\ fetched # <<>> =>
          /\ fetched[1].at = 0
          /\ \A m \in 2..Len(fetched) : fetched[m].at > 0
    /\ \A m \in 1..Len(pf) :
          /\ pf[m].at <= Min(Len(all_posts), MAX_ITEMS)
          /\ all_posts[pf[m].at].pub_dt = None
          /\ pf[m].url = all_posts[pf[m].at].url
    /\ \A m \in 1..(Len(pf) - 1) : pf[m].at < pf[m + 1].at
    /\ \A k \in 1..Len(rss_items) :
          posts[k].pub_dt = None => \E m \in 1..Len(pf) : pf[m].at = k
    /\ Len(pf) <= MAX_ITEMS

\* a finished run over a listing with an undated post beyond the cap, an
\* undated post within it whose fetch failed, and dated posts
C6_Witness ==
    /\ pc = "done"
    /\ \E k \in (MAX_ITEMS + 1)..Len(all_posts) : all_posts[k].pub_dt = None
    /\ \E k \in 1..Len(posts) : posts[k].pub_dt # None
    /\ \E k \in 1..Len(posts) : FailedAt(k)

ListingFailed == fetched # <<>> /\ ~fetched[1].ok

\* C7: the run raises only when the listing fetch failed, and then no post
\* page was fetched and no feed is written; once the listing is fetched the
\* run reaches its end with the feed written.
C7_OnlyListingFailureAborts ==
    /\ [](pc = "raised" => ListingFailed)
    /\ [](ListingFailed => (pc = "raised" /\ Len(fetched) = 1 /\ ~feed.written))
    /\ ((pc = "finditer") ~> (pc = "done" /\ feed.written))

\* a finished run over a listing without any heading-anchor match: an empty feed
C7_Witness ==
    /\ pc = "done"
    /\ listing_html = <<>>
    /\ feed.written
    /\ feed.items = <<>>

\* C8: build_dt, once set, never changes; it is set before any post page is
\* fetched; every item resolved by the last-resort fallback has
\* rfc2822(build_dt) as pubDate, which is the feed's lastBuildDate.
C8_BuildTimeFixed ==
    /\ [][build_dt # None => build_dt' = build_dt]_vars
    /\ [](PostFetches # <<>> => build_dt # None)
    /\ [](\A k \in 1..Len(rss_items) :
             FellBack(k) => rss_items[k].pubDate = rfc2822(build_dt))
    /\ [](feed.written =>
             /\ feed.lastBuildDate = rfc2822(build_dt)
             /\ \A k \in 1..Len(feed.items) :
                   FellBack(k) => feed.items[k].pubDate = feed.lastBuildDate)

\* a written feed with two fallback items (one page unfetchable, one without
\* a date) after fetches that took time
C8_Witness ==
    /\ feed.written
    /\ clock > build_dt.sec
    /\ \E j, k \in 1..Len(feed.items) :
          /\ j # k
          /\ FellBack(j) /\ FailedAt(j)
          /\ FellBack(k) /\ ~FailedAt(k)
          /\ feed.items[j].pubDate = feed.items[k].pubDate

\* C9: within an iteration pub_dt, once set, is not changed; an item of a
\* post with a listing date has that date and its page is not fetched; an
\* item of a post without one has the cascade's date for its page if there
\* is one and the build time otherwise; no item is emitted without a date.
C9_DateResolvedOnce ==
    /\ [][(pc \in {"if_missing", "fallback"} /\ pub_dt # None) => pub_dt' = pub_dt]_vars
    /\ [](pc = "append" => pub_dt # None)
    /\ [](\A k \in 1..Len(rss_items) :
             /\ rss_items[k].pubDate # rfc2822(None)
             /\ posts[k].pub_dt # None =>
                   /\ rss_items[k].pubDate = rfc2822(posts[k].pub_dt)
                   /\ \A m \in 1..Len(fetched) : fetched[m].at # k
             /\ (posts[k].pub_dt = None /\ CascadeDates(k) # {}) =>
                   rss_items[k].pubDate \in {rfc2822(dt) : dt \in CascadeDates(k)}
             /\ (posts[k].pub_dt = None /\ CascadeDates(k) = {}) =>
                   rss_items[k].pubDate = rfc2822(build_dt))

\* a written feed with an item dated by the listing, one dated by its page
\* and one dated by the build time
C9_Witness ==
    /\ feed.written
    /\ \E a, b, c \in 1..Len(feed.items) :
          /\ posts[a].pub_dt # None
          /\ posts[b].pub_dt = None /\ CascadeDates(b) # {}
          /\ FellBack(c)
          /\ feed.items[b].pubDate # feed.items[c].pubDate

====
